---- MODULE Spec2Model ----
(***************************************************************************)
(* Invoice manager (streamlit_app.py): the persisted invoice counter, the  *)
(* PDF renderer and the Preview / Download button handlers.                *)
(*                                                                         *)
(* Text is a sequence of one-character strings.  Money is in integer       *)
(* cents; tax is kept as a numerator over 100 cents.  Page geometry is in  *)
(* tenths of a point, so that 0.4 inch = 288 is an integer.                *)
(***************************************************************************)
EXTENDS Integers, Sequences, FiniteSets, TLC

VARIABLES
    file,     \* invoice_number.txt: [exists, text]
    form,     \* per session: pdf_df (selected rows) and the invoice settings
    pc,       \* per session: position of the script run
    num,      \* per session: the local num of the running button branch
    buf,      \* per session: the buffer generate_invoice_pdf returned
    shown,    \* per session: what the run put on the page
    issued    \* log of the download buttons offered: <<session, number>>

vars == <<file, form, pc, num, buf, shown, issued>>

-----------------------------------------------------------------------------
\* Bounds of the model
MaxItems == 3        \* rows of pdf_df in the renderer specification
MaxIssued == 3       \* download buttons offered before the last run starts

Sessions == {1, 2}

-----------------------------------------------------------------------------
\* str() and int() on text

Digits == <<"0", "1", "2", "3", "4", "5", "6", "7", "8", "9">>

DigitSet == {Digits[i] : i \in 1..10}

DigitVal(c) == (CHOOSE i \in 1..10 : Digits[i] = c) - 1

RECURSIVE NatStr(_)
NatStr(n) == IF n < 10 THEN <<Digits[n + 1]>>
             ELSE NatStr(n \div 10) \o <<Digits[(n % 10) + 1]>>

\* str(num)
PyStr(n) == IF n < 0 THEN <<"-">> \o NatStr(-n) ELSE NatStr(n)

IsSpace(c) == c \in {" ", "\n", "\t"}

RECURSIVE LStrip(_)
LStrip(t) == IF t # <<>> /\ IsSpace(t[1]) THEN LStrip(Tail(t)) ELSE t

RECURSIVE RStrip(_)
RStrip(t) == IF t # <<>> /\ IsSpace(t[Len(t)])
             THEN RStrip(SubSeq(t, 1, Len(t) - 1)) ELSE t

\* text.strip()
Strip(t) == RStrip(LStrip(t))

RECURSIVE DigitsValue(_, _)
DigitsValue(t, acc) ==
    IF t = <<>> THEN acc
    ELSE IF t[1] = "_" THEN DigitsValue(Tail(t), acc)
    ELSE DigitsValue(Tail(t), acc * 10 + DigitVal(t[1]))

\* int(text): an optional sign, then digits with single underscores between
\* them; anything else is a ValueError.
PyInt(t) ==
    LET s    == Strip(t)
        neg  == s # <<>> /\ s[1] = "-"
        body == IF s # <<>> /\ s[1] \in {"+", "-"} THEN Tail(s) ELSE s
        wellFormed ==
            /\ body # <<>>
            /\ body[1] \in DigitSet
            /\ body[Len(body)] \in DigitSet
            /\ \A i \in 1..Len(body) : body[i] \in DigitSet \cup {"_"}
            /\ \A i \in 1..(Len(body) - 1) : ~(body[i] = "_" /\ body[i + 1] = "_")
    IN IF wellFormed
       THEN [raised |-> FALSE,
             val |-> IF neg THEN -DigitsValue(body, 0) ELSE DigitsValue(body, 0)]
       ELSE [raised |-> TRUE, val |-> 0]

-----------------------------------------------------------------------------
\* Invoice counter store

DefaultInvoiceNumber == 1001

\* the try block of _load_invoice_number: open(...,'r') then int(f.read().strip())
LoadTry(f) == IF ~f.exists THEN [raised |-> TRUE, val |-> 0]
              ELSE PyInt(Strip(f.text))

\* variant: the except branch returns 0
LoadDefaultZero(f) == IF LoadTry(f).raised THEN 0 ELSE LoadTry(f).val

\* _load_invoice_number: the bare except turns every failure into 1001
_load_invoice_number(f) ==
    IF LoadTry(f).raised THEN DefaultInvoiceNumber ELSE LoadTry(f).val

\* variant: a save that never lowers the stored number
SaveKeepsLarger(f, n) ==
    LET m == IF LoadTry(f).raised \/ LoadTry(f).val < n THEN n ELSE LoadTry(f).val
    IN {[raised |-> TRUE, file |-> f],
        [raised |-> FALSE, file |-> [exists |-> TRUE, text |-> PyStr(m)]]}

\* Outcomes of _save_invoice_number(n) on file f: the set of [raised, file].
\*   open(...,'w') fails (no permission): the file is untouched, the error leaves.
\*   open succeeds, which creates or truncates the file, and the write of the
\*   buffered text at close fails (disk full, quota, I/O error): the file is
\*   left empty, the error leaves.
\*   otherwise the file holds str(n).
SaveOutcomes(f, n) ==
    {[raised |-> TRUE, file |-> f],
     [raised |-> TRUE, file |-> [exists |-> TRUE, text |-> <<>>]],
     [raised |-> FALSE, file |-> [exists |-> TRUE, text |-> PyStr(n)]]}

-----------------------------------------------------------------------------
\* PDF renderer (generate_invoice_pdf)

PageHeight == 7920       \* LETTER is 612 x 792 points
Inch == 720
Margin == Inch
LineHeight == 140
RowGap == 40

\* y after the header, the column titles and the rule
FirstRowY ==
    PageHeight - Margin - (4 * Inch) \div 10 - (3 * Inch) \div 10
        - (2 * Inch) \div 10 - (2 * Inch) \div 10

\* f"${x:.2f}" for x given in cents
Money(cents) ==
    <<"$">> \o NatStr(cents \div 100) \o <<".">>
        \o <<Digits[((cents % 100) \div 10) + 1], Digits[(cents % 10) + 1]>>

\* the :.2f rounding of a value given in hundredths of a cent (ties to even)
RoundCents(x100) ==
    LET q == x100 \div 100
        r == x100 % 100
    IN IF r > 50 \/ (r = 50 /\ q % 2 = 1) THEN q + 1 ELSE q

NoPdf == [ok |-> FALSE, number |-> 0, rows |-> <<>>, pages |-> 0,
          subtotal |-> 0, tax100 |-> 0, grand100 |-> 0,
          subtotalText |-> <<>>, taxText |-> <<>>, grandText |-> <<>>]

\* variant: only negative quantities are skipped
SkipRowNegative(qty) == qty < 0

\* lines 74-76: qty <= 0 is skipped
SkipRow(qty) == qty <= 0

\* line 77
RowAmount(row, qty) == row.UnitPrice * qty

\* lines 88-90: the cursor after a row, and whether the page was finished
PageBreak(y) == y < Margin

\* One pass of the loop body (lines 74-91) over df[k..]; st is the canvas
\* cursor, the pages finished so far, the running subtotal and the rows drawn.
RECURSIVE DrawRows(_, _, _)
DrawRows(df, k, st) ==
    IF k > Len(df) \/ st.raised THEN st
    ELSE LET row == df[k] IN
         IF row.QtyMissing THEN [st EXCEPT !.raised = TRUE]
         ELSE IF SkipRow(row.Quantity) THEN DrawRows(df, k + 1, st)
         ELSE LET qty    == row.Quantity
                  amount == RowAmount(row, qty)
                  low    == IF row.Lines = 0 THEN st.y
                            ELSE st.y - (row.Lines - 1) * LineHeight
                  drawn  == [SKU |-> row.SKU, UnitPrice |-> row.UnitPrice,
                             Quantity |-> qty, Amount |-> amount,
                             Lines |-> row.Lines,
                             page |-> st.finished + 1, y |-> st.y, low |-> low]
                  y2     == st.y - (row.Lines * LineHeight + RowGap)
                  brk    == PageBreak(y2)
              IN DrawRows(df, k + 1,
                     [raised   |-> FALSE,
                      y        |-> IF brk THEN PageHeight - Margin ELSE y2,
                      finished |-> IF brk THEN st.finished + 1 ELSE st.finished,
                      subtotal |-> st.subtotal + amount,
                      rows     |-> Append(st.rows, drawn)])

\* lines 94 and 105, in hundredths of a cent
TaxOf(subtotal, metadata) == subtotal * metadata.tax_rate

GrandOf(subtotal, tax100, metadata) ==
    subtotal * 100 + tax100 + metadata.assembly * 100 + metadata.delivery * 100

generate_invoice_pdf(df, number, metadata) ==
    LET st == DrawRows(df, 1, [raised |-> FALSE, y |-> FirstRowY, finished |-> 0,
                               subtotal |-> 0, rows |-> <<>>])
        tax100   == TaxOf(st.subtotal, metadata)
        grand100 == GrandOf(st.subtotal, tax100, metadata)
    IN IF st.raised THEN NoPdf
       ELSE [ok |-> TRUE, number |-> number, rows |-> st.rows,
             pages |-> st.finished + 1,
             subtotal |-> st.subtotal, tax100 |-> tax100, grand100 |-> grand100,
             subtotalText |-> Money(st.subtotal),
             taxText |-> Money(RoundCents(tax100)),
             grandText |-> Money(RoundCents(grand100))]

-----------------------------------------------------------------------------
\* The button handlers of one script run

Display(kind, branch, name, data) ==
    [kind |-> kind, branch |-> branch, file_name |-> name, data |-> data]

Nothing == Display("nothing", "", <<>>, NoPdf)

\* f"invoice_{num}.pdf"
FileName(n) == <<"invoice_">> \o PyStr(n) \o <<".pdf">>

\* the buttons are disabled while pdf_df is empty (lines 180-182)
ButtonsEnabled(s) == pc[s] = "idle" /\ Len(form[s].items) > 0

Render(s) == generate_invoice_pdf(form[s].items, num[s],
                 [tax_rate |-> form[s].tax_rate, assembly |-> form[s].assembly,
                  delivery |-> form[s].delivery])

\* line 184-185: the click reruns the script; num = _load_invoice_number()
PreviewLoad(s) ==
    /\ ButtonsEnabled(s)
    /\ num' = [num EXCEPT ![s] = _load_invoice_number(file)]
    /\ pc' = [pc EXCEPT ![s] = "p_render"]
    /\ buf' = [buf EXCEPT ![s] = NoPdf]
    /\ shown' = [shown EXCEPT ![s] = Nothing]
    /\ UNCHANGED <<file, form, issued>>

\* variant: the preview branch saves num+1 as the download branch does
PreviewFileSaves(f, n) == [exists |-> TRUE, text |-> PyStr(n + 1)]

\* what the preview branch writes to the counter file: nothing
PreviewFile(f, n) == f

\* lines 186-200: render and embed the PDF
PreviewRender(s) ==
    /\ pc[s] = "p_render"
    /\ LET r == Render(s) IN
         /\ buf' = [buf EXCEPT ![s] = r]
         /\ shown' = [shown EXCEPT ![s] =
                IF r.ok THEN Display("preview", "preview", <<>>, r)
                ELSE Display("render_error", "preview", <<>>, NoPdf)]
    /\ file' = PreviewFile(file, num[s])
    /\ pc' = [pc EXCEPT ![s] = "idle"]
    /\ UNCHANGED <<form, num, issued>>

\* lines 202-203
DownloadLoad(s) ==
    /\ ButtonsEnabled(s)
    /\ Len(issued) < MaxIssued
    /\ num' = [num EXCEPT ![s] = _load_invoice_number(file)]
    /\ pc' = [pc EXCEPT ![s] = "d_render"]
    /\ buf' = [buf EXCEPT ![s] = NoPdf]
    /\ shown' = [shown EXCEPT ![s] = Nothing]
    /\ UNCHANGED <<file, form, issued>>

\* variant: the render's exception is swallowed and the run goes on
AfterRenderSwallows(r) == "d_save"

\* where the run goes after lines 204-209: on to the save, or out with the error
AfterRender(r) == IF r.ok THEN "d_save" ELSE "idle"

\* lines 204-209
DownloadRender(s) ==
    /\ pc[s] = "d_render"
    /\ LET r == Render(s) IN
         /\ buf' = [buf EXCEPT ![s] = r]
         /\ shown' = [shown EXCEPT ![s] =
                IF r.ok THEN Nothing
                ELSE Display("render_error", "download", <<>>, NoPdf)]
         /\ pc' = [pc EXCEPT ![s] = AfterRender(r)]
    /\ UNCHANGED <<file, form, num, issued>>

\* variant: the saved value skips a number
NextNumberSkips(n) == n + 2

\* the value line 210 saves
NextNumber(n) == n + 1

\* where the run goes after line 210
AfterSave(o) == IF o.raised THEN "idle" ELSE "d_offer"

\* line 210: _save_invoice_number(num+1)
DownloadSave(s) ==
    /\ pc[s] = "d_save"
    /\ \E o \in SaveOutcomes(file, NextNumber(num[s])) :
         /\ file' = o.file
         /\ pc' = [pc EXCEPT ![s] = AfterSave(o)]
         /\ shown' = [shown EXCEPT ![s] =
                IF o.raised THEN Display("save_error", "download", <<>>, NoPdf)
                ELSE Nothing]
    /\ UNCHANGED <<form, num, buf, issued>>

\* the number the offered file is named after
OfferedNumber(s) == num[s]

\* lines 211-216: st.download_button
DownloadOffer(s) ==
    /\ pc[s] = "d_offer"
    /\ shown' = [shown EXCEPT ![s] =
           Display("button", "download", FileName(OfferedNumber(s)), buf[s])]
    /\ issued' = Append(issued, <<s, OfferedNumber(s)>>)
    /\ pc' = [pc EXCEPT ![s] = "idle"]
    /\ UNCHANGED <<file, form, num, buf>>

\* the user presses "Save PDF": the browser takes the file, the script reruns
\* with no button pressed and the download button is gone
SavePdf(s) ==
    /\ pc[s] = "idle"
    /\ shown[s].kind = "button"
    /\ shown' = [shown EXCEPT ![s] = Nothing]
    /\ buf' = [buf EXCEPT ![s] = NoPdf]
    /\ UNCHANGED <<file, form, pc, num, issued>>

-----------------------------------------------------------------------------
\* Inputs

Absent == [exists |-> FALSE, text |-> <<>>]

Holding(t) == [exists |-> TRUE, text |-> t]

\* contents the counter file may have when the operator starts
StartFiles ==
    {Absent,
     Holding(<<>>),
     Holding(<<"x", "y">>),
     Holding(<<"1", "2", "x">>),
     Holding(<<"-">>),
     Holding(<<" ", "\n">>),
     Holding(<<"7">>),
     Holding(<<"-", "2">>),
     Holding(<<"1", "0", "0", "1">>),
     Holding(<<"1", "0", "0", "5">>),
     Holding(<<" ", "1", "0", "0", "3", "\n">>)}

MkRow(i, a) == [SKU |-> i, UnitPrice |-> a.UnitPrice, Quantity |-> a.Quantity,
                Lines |-> a.Lines, QtyMissing |-> a.QtyMissing]

RowAttrs == [UnitPrice : {500, 1000}, Quantity : {0, 2}, Lines : {1, 2, 40},
             QtyMissing : {FALSE}]

Settings == {[tax_rate |-> 0, assembly |-> 0, delivery |-> 0],
             [tax_rate |-> 7, assembly |-> 300, delivery |-> 200],
             [tax_rate |-> 10, assembly |-> 0, delivery |-> 550]}

MkForm(items, m) == [items |-> items, tax_rate |-> m.tax_rate,
                     assembly |-> m.assembly, delivery |-> m.delivery]

\* every non-empty selection of at most MaxItems rows, with every setting
RenderForms ==
    {MkForm([i \in 1..n |-> MkRow(i, a[i])], m) :
        <<n, a, m>> \in {<<n, a, m>> \in
            (1..MaxItems) \X (UNION {[1..k -> RowAttrs] : k \in 1..MaxItems}) \X Settings :
                DOMAIN a = 1..n} }

\* A1 10.00 x 2 and A2 5.00 x 0 at 7% with 3 and 2
ExampleForm ==
    MkForm(<<[SKU |-> 1, UnitPrice |-> 1000, Quantity |-> 2, Lines |-> 1,
              QtyMissing |-> FALSE],
             [SKU |-> 2, UnitPrice |-> 500, Quantity |-> 0, Lines |-> 1,
              QtyMissing |-> FALSE]>>,
           [tax_rate |-> 7, assembly |-> 300, delivery |-> 200])

\* a selection whose second Quantity cell was cleared: int(NaN) raises
BrokenForm ==
    MkForm(<<[SKU |-> 1, UnitPrice |-> 1000, Quantity |-> 1, Lines |-> 1,
              QtyMissing |-> FALSE],
             [SKU |-> 2, UnitPrice |-> 500, Quantity |-> 0, Lines |-> 1,
              QtyMissing |-> TRUE]>>,
           [tax_rate |-> 7, assembly |-> 0, delivery |-> 0])

CounterForms == {ExampleForm, BrokenForm}

-----------------------------------------------------------------------------
\* Specifications

Step(s) ==
    \/ PreviewLoad(s)
    \/ PreviewRender(s)
    \/ DownloadLoad(s)
    \/ DownloadRender(s)
    \/ DownloadSave(s)
    \/ DownloadOffer(s)
    \/ SavePdf(s)

\* the user edits the grid between runs (lines 142-170)
EditSelection(s) ==
    /\ pc[s] = "idle"
    /\ \E f \in CounterForms : form' = [form EXCEPT ![s] = f]
    /\ shown' = [shown EXCEPT ![s] = Nothing]
    /\ buf' = [buf EXCEPT ![s] = NoPdf]
    /\ UNCHANGED <<file, pc, num, issued>>

\* One operator: session 1 runs, session 2 is not open.
Init ==
    /\ file \in StartFiles
    /\ \E f \in CounterForms : form = [s \in Sessions |-> f]
    /\ pc = [s \in Sessions |-> IF s = 1 THEN "idle" ELSE "off"]
    /\ num = [s \in Sessions |-> 0]
    /\ buf = [s \in Sessions |-> NoPdf]
    /\ shown = [s \in Sessions |-> Nothing]
    /\ issued = <<>>

Next == \E s \in Sessions : Step(s) \/ EditSelection(s)

Spec == Init /\ [][Next]_vars

\* The renderer on every bounded input, through the preview branch.
InitRender ==
    /\ file = Absent
    /\ \E f \in RenderForms : form = [s \in Sessions |-> f]
    /\ pc = [s \in Sessions |-> IF s = 1 THEN "idle" ELSE "off"]
    /\ num = [s \in Sessions |-> 0]
    /\ buf = [s \in Sessions |-> NoPdf]
    /\ shown = [s \in Sessions |-> Nothing]
    /\ issued = <<>>

NextRender == \E s \in Sessions : PreviewLoad(s) \/ PreviewRender(s)

SpecRender == InitRender /\ [][NextRender]_vars

\* Two browser sessions on the same counter file, each running downloads.
InitRace ==
    /\ file \in {Absent, Holding(<<"1", "0", "0", "5">>)}
    /\ form = [s \in Sessions |-> ExampleForm]
    /\ pc = [s \in Sessions |-> "idle"]
    /\ num = [s \in Sessions |-> 0]
    /\ buf = [s \in Sessions |-> NoPdf]
    /\ shown = [s \in Sessions |-> Nothing]
    /\ issued = <<>>

NextRace ==
    \E s \in Sessions :
        \/ DownloadLoad(s)
        \/ DownloadRender(s)
        \/ DownloadSave(s)
        \/ DownloadOffer(s)

SpecRace == InitRace /\ [][NextRace]_vars

-----------------------------------------------------------------------------
\* Properties of the counter under one operator (Spec)

\* C1: a step of the preview branch (the load at the click, then the render
\* and embed) leaves the counter file exactly as it was, content and
\* existence, so any number of previews in a row leaves it as it was before
\* the first.
PreviewNonDestructive ==
    [][\A s \in Sessions :
          (pc[s] = "p_render" \/ pc'[s] = "p_render") => file' = file]_vars

PreviewedAbsentFile ==
    /\ shown[1].kind = "preview"
    /\ shown[1].data.number = DefaultInvoiceNumber
    /\ file = Absent

\* C2: while a download button is offered the counter file holds exactly
\* str(n+1), the buffer carries n and the file is named invoice_n.pdf, where
\* n is what the load returned; and the step that saves successfully moves
\* the value load() returns from n to n+1.
DownloadAdvancesByOne ==
    /\ [](\A s \in Sessions : shown[s].kind = "button" =>
             /\ file = Holding(PyStr(num[s] + 1))
             /\ _load_invoice_number(file) = num[s] + 1
             /\ shown[s].data.ok
             /\ shown[s].data.number = num[s]
             /\ shown[s].file_name = <<"invoice_">> \o PyStr(num[s]) \o <<".pdf">>)
    /\ [][\A s \in Sessions :
             (pc[s] = "d_save" /\ pc'[s] = "d_offer") =>
                 /\ _load_invoice_number(file) = num[s]
                 /\ _load_invoice_number(file') = _load_invoice_number(file) + 1]_vars

\* from an absent file: one download, then a preview, and the file holds 1002
DownloadThenPreviewFromAbsent ==
    /\ issued = << <<1, 1001>> >>
    /\ shown[1].kind = "preview"
    /\ shown[1].data.number = 1002
    /\ file = Holding(<<"1", "0", "0", "2">>)

\* the text between the leading and the trailing whitespace
Payload(t) ==
    LET idx == {k \in 1..Len(t) : ~IsSpace(t[k])}
    IN IF idx = {} THEN <<>>
       ELSE SubSeq(t, CHOOSE k \in idx : \A j \in idx : k <= j,
                      CHOOSE k \in idx : \A j \in idx : k >= j)

\* text that is no integer: nothing but whitespace, no digit at all, or a
\* character that belongs to no number
Unparsable(t) ==
    \/ Payload(t) = <<>>
    \/ \A k \in 1..Len(t) : t[k] \notin DigitSet
    \/ \E k \in 1..Len(Payload(t)) : Payload(t)[k] \notin DigitSet \cup {"+", "-", "_"}

\* a plain decimal integer: "0", or an optional minus, a non-zero digit and digits
PlainDecimal(p) ==
    \/ p = <<"0">>
    \/ LET d == IF p # <<>> /\ p[1] = "-" THEN Tail(p) ELSE p
       IN /\ d # <<>>
          /\ d[1] \in DigitSet \ {"0"}
          /\ \A k \in 1..Len(d) : d[k] \in DigitSet

\* C3: right after the load of a run, num is 1001 when the file is missing,
\* empty or holds no integer, and is the integer whose decimal text the file
\* holds (whitespace around it allowed) otherwise: str(num) is that text, so
\* a saved value is read back as saved.
LoadContract ==
    \A s \in Sessions : pc[s] \in {"p_render", "d_render"} =>
        /\ (~file.exists \/ file.text = <<>> \/ Unparsable(file.text))
              => num[s] = 1001
        /\ (file.exists /\ PlainDecimal(Payload(file.text)))
              => PyStr(num[s]) = Payload(file.text)

LoadedFromGarbage ==
    /\ pc[1] = "d_render"
    /\ file = Holding(<<"1", "2", "x">>)
    /\ num[1] = 1001

\* C4: no step lowers the value load() returns.
CounterNeverDecremented ==
    [][_load_invoice_number(file') >= _load_invoice_number(file)]_vars

\* C5: no two download buttons are offered for the same invoice number.
NoNumberIssuedTwice ==
    \A i, j \in 1..Len(issued) : i # j => issued[i][2] # issued[j][2]

\* C6: the run reaches the save and the offer only with a buffer rendered for
\* num; the counter file changes only in the save step of such a run; and
\* when the render raises the run ends with the file untouched and no button.
SaveOnlyAfterRender ==
    /\ [](\A s \in Sessions :
             /\ pc[s] \in {"d_save", "d_offer"} =>
                    buf[s].ok /\ buf[s].number = num[s]
             /\ shown[s].kind = "button" => shown[s].data.ok)
    /\ [][\A s \in Sessions :
             /\ (pc[s] # "off" /\ file' # file) =>
                    pc[s] = "d_save" /\ buf[s].ok /\ buf[s].number = num[s]
             /\ (pc[s] = "d_render" /\ ~buf'[s].ok) =>
                    /\ file' = file
                    /\ pc'[s] = "idle"
                    /\ shown'[s].kind = "render_error"]_vars

RenderRaisedInDownload ==
    /\ shown[1].kind = "render_error"
    /\ shown[1].branch = "download"
    /\ pc[1] = "idle"
    /\ num[1] = 1005
    /\ file = Holding(<<"1", "0", "0", "5">>)

\* C7: after a failed save the run has ended without a button and the next
\* load returns the number the failed download used.
FailedSaveKeepsNumber ==
    \A s \in Sessions : shown[s].kind = "save_error" =>
        /\ pc[s] = "idle"
        /\ _load_invoice_number(file) = num[s]

-----------------------------------------------------------------------------
\* Properties of the renderer (SpecRender)

Billable(row) == row.Quantity > 0

RECURSIVE SumAmounts(_)
SumAmounts(rows) ==
    IF rows = <<>> THEN 0 ELSE rows[1].Amount + SumAmounts(Tail(rows))

RECURSIVE SumHeights(_)
SumHeights(rows) ==
    IF rows = <<>> THEN 0
    ELSE rows[1].Lines * LineHeight + RowGap + SumHeights(Tail(rows))

\* C8: the rendered rows are the items with Quantity > 0, in input order, each
\* with Amount = Unit Price x Quantity; Subtotal is the sum of the drawn
\* Amounts and Grand Total = Subtotal + Subtotal x tax_rate/100 + assembly +
\* delivery (compared in hundredths of a cent); and the example invoice shows
\* one row, $20.00, $1.40 and $26.40.
RowsAndTotals ==
    \A s \in Sessions : shown[s].kind = "preview" =>
        LET d    == shown[s].data
            kept == SelectSeq(form[s].items, Billable)
        IN /\ Len(d.rows) = Len(kept)
           /\ \A i \in 1..Len(kept) :
                 /\ d.rows[i].SKU = kept[i].SKU
                 /\ d.rows[i].Quantity = kept[i].Quantity
                 /\ d.rows[i].UnitPrice = kept[i].UnitPrice
                 /\ d.rows[i].Amount = kept[i].UnitPrice * kept[i].Quantity
           /\ d.subtotal = SumAmounts(d.rows)
           /\ d.grand100 = 100 * d.subtotal + d.subtotal * form[s].tax_rate
                             + 100 * form[s].assembly + 100 * form[s].delivery
           /\ form[s] = ExampleForm =>
                 /\ Len(d.rows) = 1
                 /\ d.rows[1].SKU = 1
                 /\ d.subtotalText = <<"$", "2", "0", ".", "0", "0">>
                 /\ d.taxText = <<"$", "1", ".", "4", "0">>
                 /\ d.grandText = <<"$", "2", "6", ".", "4", "0">>

\* a preview of three items, the middle one with quantity 0
SkippedMiddleRow ==
    /\ shown[1].kind = "preview"
    /\ Len(form[1].items) = 3
    /\ form[1].items[1].Quantity > 0
    /\ form[1].items[2].Quantity = 0
    /\ form[1].items[3].Quantity > 0
    /\ form[1].tax_rate = 7
    /\ Len(shown[1].data.rows) = 2

UsableHeight == PageHeight - 2 * Margin

CeilDiv(a, b) == (a + b - 1) \div b

\* C9: when the rows' cumulative height exceeds the usable page height, the
\* document has ceil(total height / usable height) pages and no text of any
\* row is drawn below the bottom margin.
PaginationContract ==
    \A s \in Sessions : shown[s].kind = "preview" =>
        LET d     == shown[s].data
            total == SumHeights(d.rows)
        IN total > UsableHeight =>
              /\ d.pages = CeilDiv(total, UsableHeight)
              /\ \A i \in 1..Len(d.rows) : d.rows[i].low >= Margin

-----------------------------------------------------------------------------
\* Properties of two racing sessions (SpecRace)

\* C10: a successful save writes str(num+1) of the saving session whatever the
\* file held, so the later save decides the persisted value.
LastWriterWins ==
    [][\A s \in Sessions :
          (pc[s] = "d_save" /\ pc'[s] = "d_offer") =>
              file' = Holding(PyStr(num[s] + 1))]_vars

\* both sessions were issued n, the other session was also issued n+1 and had
\* stored n+2, and the counter ends at n+1
SameNumberTwiceAndLowered ==
    /\ Len(issued) = 3
    /\ issued[1][1] # issued[3][1]
    /\ issued[1][2] = issued[3][2]
    /\ issued[2][2] = issued[1][2] + 1
    /\ \A s \in Sessions : pc[s] = "idle"
    /\ _load_invoice_number(file) = issued[1][2] + 1

====
